---- MODULE Spec2Model ----
(***************************************************************************)
(* Swap bootstrapping of a zero curve (src/main.cpp): the ZeroCurve map,   *)
(* the Bootstrapper's sort and calibrate loop, and the SwapPricer.         *)
(*                                                                         *)
(* Every `double` of the program is an IEEE-754 binary64 value here: a     *)
(* record [sgn, exp, hi, lo] standing for sgn * (hi * 2^28 + lo) * 2^exp   *)
(* with a 53-bit significand (2^52 <= hi * 2^28 + lo < 2^53) or zero.  The *)
(* operators DAdd, DSub, DMul and DDiv round to nearest, ties to even, as  *)
(* the hardware does, so that a rounding drift of the program is a rounding*)
(* drift of the model.  Infinities, NaN and subnormals are outside the     *)
(* inputs the model draws.                                                 *)
(***************************************************************************)
EXTENDS Integers, Sequences, FiniteSets, TLC

----------------------------------------------------------------------------
(* Wide naturals below 2^59: <<h, l>> stands for h * 2^28 + l, 0 <= l < 2^28 *)

Pow2(k) == 2^k

Base == Pow2(28)

RECURSIVE BitLenFrom(_, _)
BitLenFrom(n, k) == IF n < Pow2(k) THEN k ELSE IF k = 30 THEN 31 ELSE BitLenFrom(n, k + 1)

BitLen(n) == IF n = 0 THEN 0 ELSE BitLenFrom(n, 1)

WBitLen(a) == IF a[1] > 0 THEN 28 + BitLen(a[1]) ELSE BitLen(a[2])

WGe(a, b) == a[1] > b[1] \/ (a[1] = b[1] /\ a[2] >= b[2])

WAdd(a, b) ==
    LET l == a[2] + b[2]
    IN  IF l >= Base THEN <<a[1] + b[1] + 1, l - Base>> ELSE <<a[1] + b[1], l>>

WSub(a, b) ==
    IF a[2] >= b[2] THEN <<a[1] - b[1], a[2] - b[2]>>
                    ELSE <<a[1] - b[1] - 1, a[2] + Base - b[2]>>

WShr(a, k) ==
    IF k >= 56 THEN <<0, 0>>
    ELSE IF k >= 28 THEN <<0, a[1] \div Pow2(k - 28)>>
    ELSE <<a[1] \div Pow2(k), (a[1] % Pow2(k)) * Pow2(28 - k) + a[2] \div Pow2(k)>>

\* (a mod 2^k) # 0
WLowBits(a, k) ==
    IF k >= 56 THEN a[1] # 0 \/ a[2] # 0
    ELSE IF k >= 28 THEN a[2] # 0 \/ a[1] % Pow2(k - 28) # 0
    ELSE a[2] % Pow2(k) # 0

WShl(a, k) ==
    IF k >= 28 THEN <<a[2] * Pow2(k - 28), 0>>
    ELSE <<a[1] * Pow2(k) + a[2] \div Pow2(28 - k), (a[2] % Pow2(28 - k)) * Pow2(k)>>

WOdd(a) == a[2] % 2 = 1

----------------------------------------------------------------------------
(* binary64 values and their rounding.  An operator hands every value it    *)
(* uses more than once to the next operator as an argument.                  *)

DZero == [sgn |-> 1, exp |-> 0, hi |-> 0, lo |-> 0]

DOne == [sgn |-> 1, exp |-> -52, hi |-> Pow2(24), lo |-> 0]

DTwo == [sgn |-> 1, exp |-> -51, hi |-> Pow2(24), lo |-> 0]

DHalf == [sgn |-> 1, exp |-> -53, hi |-> Pow2(24), lo |-> 0]

IsZero(x) == x.hi = 0 /\ x.lo = 0

Man(x) == <<x.hi, x.lo>>

\* a significand that reached 2^53 is 2^52 with the next exponent
Carry(s, e, r) ==
    IF r[1] = Pow2(25) THEN [sgn |-> s, exp |-> e + 1, hi |-> Pow2(24), lo |-> 0]
    ELSE [sgn |-> s, exp |-> e, hi |-> r[1], lo |-> r[2]]

\* w has L > 53 bits: drop L - 53 of them, to nearest, ties to even
RoundOff(s, e, w, sticky, sh, q) ==
    Carry(s, e + sh,
          IF WOdd(WShr(w, sh - 1)) /\ (sticky \/ WLowBits(w, sh - 1) \/ WOdd(q))
          THEN WAdd(q, <<0, 1>>) ELSE q)

RoundLen(s, e, w, sticky, L) ==
    IF L = 0 THEN DZero
    ELSE IF L <= 53 THEN Carry(s, e - (53 - L), WShl(w, 53 - L))
    ELSE RoundOff(s, e, w, sticky, L - 53, WShr(w, L - 53))

\* The double nearest to s * (w + f) * 2^e, where 0 <= f < 1 and f # 0 iff
\* sticky; ties go to the even significand. sticky needs w >= 2^53.
RoundPack(s, e, w, sticky) == RoundLen(s, e, w, sticky, WBitLen(w))

DNeg(x) == IF IsZero(x) THEN x ELSE [x EXCEPT !.sgn = -x.sgn]

\* |x| >= |y| for two nonzero doubles
MagGe(x, y) == x.exp > y.exp \/ (x.exp = y.exp /\ WGe(Man(x), Man(y)))

\* A is the larger significand with three guard bits, B the smaller one
\* brought to the same exponent, st whether bits of it were shifted out
DAddGuarded(s, e, same, A, B, st) ==
    RoundPack(s, e,
              IF same THEN WAdd(A, B)
              ELSE IF st THEN WSub(WSub(A, B), <<0, 1>>) ELSE WSub(A, B),
              st)

DAddShifted(a, b, d, B3) ==
    IF d >= 58 THEN a
    ELSE DAddGuarded(a.sgn, a.exp - 3, a.sgn = b.sgn, WShl(Man(a), 3),
                     WShr(B3, d), WLowBits(B3, d))

\* a + b for |a| >= |b| > 0
DAddOrdered(a, b) == DAddShifted(a, b, a.exp - b.exp, WShl(Man(b), 3))

DAddSwap(x, y, ge) == DAddOrdered(IF ge THEN x ELSE y, IF ge THEN y ELSE x)

DAdd(x, y) ==
    IF IsZero(x) THEN y
    ELSE IF IsZero(y) THEN x
    ELSE DAddSwap(x, y, MagGe(x, y))

DSub(x, y) == DAdd(x, DNeg(y))

\* 14-bit limbs of a 53-bit significand, least significant first
Limbs(x) == <<x.lo % Pow2(14), x.lo \div Pow2(14), x.hi % Pow2(14), x.hi \div Pow2(14)>>

\* the columns of the schoolbook product of two four-limb numbers
Columns(a, b) ==
    <<a[1] * b[1],
      a[1] * b[2] + a[2] * b[1],
      a[1] * b[3] + a[2] * b[2] + a[3] * b[1],
      a[1] * b[4] + a[2] * b[3] + a[3] * b[2] + a[4] * b[1],
      a[2] * b[4] + a[3] * b[3] + a[4] * b[2],
      a[3] * b[4] + a[4] * b[3],
      a[4] * b[4]>>

\* the limbs of the product: carries propagated through the columns
RECURSIVE Propagate(_, _, _)
Propagate(c, i, carry) ==
    IF i > Len(c) THEN <<carry>>
    ELSE <<(c[i] + carry) % Pow2(14)>> \o Propagate(c, i + 1, (c[i] + carry) \div Pow2(14))

\* p holds the eight limbs of a product of two 53-bit significands: keep its
\* bits 50 and up, and whether any bit below is set
DMulRound(s, e, p) ==
    RoundPack(s, e,
              <<p[6] \div 256 + p[7] * 64 + p[8] * Pow2(20),
                p[4] \div 256 + p[5] * 64 + (p[6] % 256) * Pow2(20)>>,
              p[1] # 0 \/ p[2] # 0 \/ p[3] # 0 \/ p[4] % 256 # 0)

DMul(x, y) ==
    IF IsZero(x) \/ IsZero(y) THEN DZero
    ELSE DMulRound(x.sgn * y.sgn, x.exp + y.exp + 50,
                   Propagate(Columns(Limbs(x), Limbs(y)), 1, 0))

\* n more quotient bits of r / d (r < 2 * d): <<quotient bits, remainder>>
RECURSIVE DivBits(_, _, _, _)
DivBits(r, d, n, q) ==
    IF n = 0 THEN <<q, r>>
    ELSE IF WGe(r, d) THEN DivBits(WShl(WSub(r, d), 1), d, n - 1, 2 * q + 1)
                      ELSE DivBits(WShl(r, 1), d, n - 1, 2 * q)

DDivRound(s, e, qh, l) == RoundPack(s, e, <<qh, l[1]>>, l[2] # <<0, 0>>)

DDivLow(s, e, d, h) == DDivRound(s, e, h[1], DivBits(h[2], d, 28, 0))

DDiv(x, y) ==
    IF IsZero(x) THEN DZero
    ELSE DDivLow(x.sgn * y.sgn, x.exp - y.exp - 55, Man(y), DivBits(Man(x), Man(y), 28, 0))

DLt(x, y) ==
    IF IsZero(x) THEN (~IsZero(y) /\ y.sgn = 1)
    ELSE IF IsZero(y) THEN x.sgn = -1
    ELSE IF x.sgn # y.sgn THEN x.sgn = -1
    ELSE IF x.sgn = 1 THEN ~MagGe(x, y)
    ELSE ~MagGe(y, x)

FromNat(s, n) == RoundPack(s, 0, <<n \div Base, n % Base>>, FALSE)

\* (double) i
FromInt(i) == IF i < 0 THEN FromNat(-1, -i) ELSE FromNat(1, i)

\* the double nearest to n / d, as the compiler reads a decimal literal
Dec(n, d) == DDiv(FromInt(n), FromInt(d))

IntOf(s, w) == s * (w[1] * Base + w[2])

\* (int) x: truncation towards zero, |x| < 2^31
DTrunc(x) ==
    IF IsZero(x) \/ x.exp <= -53 THEN 0 ELSE IntOf(x.sgn, WShr(Man(x), -x.exp))

\* floor(x), |x| < 2^52
DFloor(x) ==
    IF IsZero(x) \/ x.exp >= 0 THEN x
    ELSE IF x.exp <= -53 THEN (IF x.sgn = 1 THEN DZero ELSE DNeg(DOne))
    ELSE IF x.sgn = 1 THEN RoundPack(1, 0, WShr(Man(x), -x.exp), FALSE)
    ELSE RoundPack(-1, 0,
                   IF WLowBits(Man(x), -x.exp) THEN WAdd(WShr(Man(x), -x.exp), <<0, 1>>)
                   ELSE WShr(Man(x), -x.exp),
                   FALSE)

----------------------------------------------------------------------------
(* Natural numbers of any size, as 14-bit limbs, least significant first,   *)
(* and the fused multiply-add a * b + c with its single rounding.           *)

LimbAt(n, i) == IF i >= 1 /\ i <= Len(n) THEN n[i] ELSE 0

BShlLimbs(n, q, r) ==
    [i \in 1..q |-> 0] \o Propagate([i \in 1..Len(n) |-> n[i] * Pow2(r)], 1, 0)

\* n * 2^k
BShl(n, k) == BShlLimbs(n, k \div 14, k % 14)

BLen(x, y) == IF Len(x) >= Len(y) THEN Len(x) ELSE Len(y)

BSum(x, y) == Propagate([i \in 1..BLen(x, y) |-> LimbAt(x, i) + LimbAt(y, i)], 1, 0)

\* x - y when x >= y; otherwise the last limb is -1
BDiff(x, y) == Propagate([i \in 1..BLen(x, y) |-> LimbAt(x, i) - LimbAt(y, i)], 1, 0)

\* the position of the highest limb that is not zero
RECURSIVE BTop(_, _)
BTop(n, i) == IF i = 0 THEN 0 ELSE IF n[i] # 0 THEN i ELSE BTop(n, i - 1)

BBitLenAt(n, t) == IF t = 0 THEN 0 ELSE 14 * (t - 1) + BitLen(n[t])

BBitLen(n) == BBitLenAt(n, BTop(n, Len(n)))

BBits(n, q, r) ==
    (LimbAt(n, q + 1) \div Pow2(r)) + LimbAt(n, q + 2) * Pow2(14 - r)
        + (LimbAt(n, q + 3) % Pow2(r)) * Pow2(28 - r)

\* the 28 bits of n from bit `from` up
BBits28(n, from) == BBits(n, from \div 14, from % 14)

BLow(n, q, r) == (\E i \in 1..q : LimbAt(n, i) # 0) \/ LimbAt(n, q + 1) % Pow2(r) # 0

\* n has L bits: round its top 56 bits, the rest being sticky
BRoundLen(s, e, n, L) ==
    IF L <= 56 THEN RoundPack(s, e, <<BBits28(n, 28), BBits28(n, 0)>>, FALSE)
    ELSE RoundPack(s, e + L - 56, <<BBits28(n, L - 28), BBits28(n, L - 56)>>,
                   BLow(n, (L - 56) \div 14, (L - 56) % 14))

\* the double nearest to s * n * 2^e
BRound(s, e, n) == BRoundLen(s, e, n, BBitLen(n))

FmaSub(sp, sc, e, X, Y, d) ==
    IF d[Len(d)] < 0 THEN BRound(sc, e, BDiff(Y, X)) ELSE BRound(sp, e, d)

\* sp * X * 2^e + sc * Y * 2^e
FmaSum(sp, sc, e, X, Y) ==
    IF sp = sc THEN BRound(sp, e, BSum(X, Y)) ELSE FmaSub(sp, sc, e, X, Y, BDiff(X, Y))

\* sp * p * 2^ep + c, d = ep - c.exp: a term far below the other only
\* decides the rounding
FmaExact(sp, p, ep, c, d) ==
    IF d > 60 THEN FmaSum(sp, c.sgn, ep - 2, BShl(p, 2), <<1>>)
    ELSE IF d < -110 THEN c
    ELSE IF d >= 0 THEN FmaSum(sp, c.sgn, c.exp, BShl(p, d), Limbs(c))
    ELSE FmaSum(sp, c.sgn, ep, p, BShl(Limbs(c), -d))

\* fma(a, b, c): a * b + c rounded once (vfmadd...sd)
DFma(a, b, c) ==
    IF IsZero(a) \/ IsZero(b) THEN c
    ELSE IF IsZero(c) THEN DMul(a, b)
    ELSE FmaExact(a.sgn * b.sgn, Propagate(Columns(Limbs(a), Limbs(b)), 1, 0),
                  a.exp + b.exp, c, a.exp + b.exp - c.exp)

----------------------------------------------------------------------------
(* exp and log of <cmath> as the program's C library computes them: glibc   *)
(* 2.36, sysdeps/ieee754/dbl-64/e_exp.c and e_log.c with the tables of      *)
(* e_exp_data.c and e_log_data.c, in the build for processors with fused    *)
(* multiply-add, which the dynamic linker selects.  Each DFma below is one  *)
(* fused instruction of that build.                                         *)

\* the double with the bits: sign and exponent field (12 bits), the top 24
\* and the low 28 bits of the significand field
DOfBits(se, mh, ml) ==
    IF se % 2048 = 0 THEN DZero
    ELSE [sgn |-> IF se >= 2048 THEN -1 ELSE 1, exp |-> (se % 2048) - 1075,
          hi |-> Pow2(24) + mh, lo |-> ml]

\* N / ln 2, N = 128
InvLn2N == DOfBits(\H406, \H715476, \H52B82FE)

\* 0x1.8p52
Shift == DOfBits(\H433, \H800000, \H0000000)

NegLn2hiN == DOfBits(\HBF7, \H62E42F, \HEFA0000)

NegLn2loN == DOfBits(\HBD0, \HCF79AB, \HC9E3B3A)

ExpC2 == DOfBits(\H3FD, \HFFFFFF, \HFFFFDBD)

ExpC3 == DOfBits(\H3FC, \H555555, \H555543C)

ExpC4 == DOfBits(\H3FA, \H55555C, \HF172B91)

ExpC5 == DOfBits(\H3F8, \H111116, \H7A4D017)

\* __exp_data.tab: for j = 0..127 the bits of the tail of 2^(j/N), and the
\* bits of 2^(j/N) less j * 2^45
ExpTab ==
    <<<<\H000, \H000000, \H0000000, \H3FF, \H000000, \H0000000>>,
      <<\H3C9, \HB3B4F1, \HA88BF6E, \H3FE, \HFF63DA, \H9FB3335>>,
      <<\HBC7, \H160139, \HCD8DC5D, \H3FE, \HFEC9A3, \HE778061>>,
      <<\HBC9, \H05E7A1, \H08766D1, \H3FE, \HFE315E, \H86E7F85>>,
      <<\H3C8, \HCD2523, \H567F613, \H3FE, \HFD9B0D, \H3158574>>,
      <<\HBC8, \HBCE802, \H3F98EFA, \H3FE, \HFD06B2, \H9DDF6DE>>,
      <<\H3C6, \H0F74E6, \H1E6C861, \H3FE, \HFC7451, \H8759BC8>>,
      <<\H3C9, \H0A3E45, \HB33D399, \H3FE, \HFBE3EC, \HAC6F383>>,
      <<\H3C9, \H79AA65, \HD837B6D, \H3FE, \HFB5586, \HCF9890F>>,
      <<\H3C8, \HEB51A9, \H2FDEFFC, \H3FE, \HFAC922, \HB7247F7>>,
      <<\H3C3, \HEBE3D7, \H02F9CD1, \H3FE, \HFA3EC3, \H2D3D1A2>>,
      <<\HBC6, \HA03348, \H9906E0B, \H3FE, \HF9B66A, \HFFED31B>>,
      <<\HBC9, \H556522, \HA2FBD0E, \H3FE, \HF9301D, \H0125B51>>,
      <<\HBC5, \H080EF8, \HC4EEA55, \H3FE, \HF8ABDC, \H06C31CC>>,
      <<\HBC9, \H1C923B, \H9D5F416, \H3FE, \HF829AA, \HEA92DE0>>,
      <<\H3C8, \H0D3E3E, \H95C55AF, \H3FE, \HF7A98C, \H8A58E51>>,
      <<\HBC8, \H01B15E, \HAA59348, \H3FE, \HF72B83, \HC7D517B>>,
      <<\HBC8, \HF1FF05, \H5DE323D, \H3FE, \HF6AF93, \H88C8DEA>>,
      <<\H3C8, \HB898C3, \HF1353BF, \H3FE, \HF635BE, \HB6FCB75>>,
      <<\HBC9, \H6D99C7, \H611EB26, \H3FE, \HF5BE08, \H4045CD4>>,
      <<\H3C9, \HAECF73, \HE3A2F60, \H3FE, \HF54873, \H168B9AA>>,
      <<\HBC8, \HFE782C, \HB86389D, \H3FE, \HF4D502, \H2FCD91D>>,
      <<\H3C8, \HA6F414, \H4A6C38D, \H3FE, \HF463B8, \H8628CD6>>,
      <<\H3C8, \H07A05B, \H0E4047D, \H3FE, \HF3F499, \H17DDC96>>,
      <<\H3C9, \H68EFDE, \H3A8A894, \H3FE, \HF387A6, \HE756238>>,
      <<\H3C8, \H75E18F, \H274487D, \H3FE, \HF31CE4, \HFB2A63F>>,
      <<\H3C8, \H0472B9, \H81FE7F2, \H3FE, \HF2B456, \H5E27CDD>>,
      <<\HBC9, \H6B87B3, \HF71085E, \H3FE, \HF24DFE, \H1F56381>>,
      <<\H3C8, \H2F7E16, \HD09AB31, \H3FE, \HF1E9DF, \H51FDEE1>>,
      <<\HBC3, \HD219B1, \HA6FBFFA, \H3FE, \HF187FD, \H0DAD990>>,
      <<\H3C8, \HB37827, \H20C0AB4, \H3FE, \HF1285A, \H6E4030B>>,
      <<\H3C6, \HE14928, \H9CECB8F, \H3FE, \HF0CAFA, \H93E2F56>>,
      <<\H3C8, \H34D754, \HDB0ABB6, \H3FE, \HF06FE0, \HA31B715>>,
      <<\H3C8, \H64201E, \H2AC744C, \H3FE, \HF0170F, \HC4CD831>>,
      <<\H3C8, \HFDD395, \HDD3F84A, \H3FE, \HEFC08B, \H26416FF>>,
      <<\HBC8, \H6A3803, \HB8E5B04, \H3FE, \HEF6C55, \HF929FF1>>,
      <<\HBC9, \H24AEDC, \HC4B5068, \H3FE, \HEF1A73, \H73AA9CB>>,
      <<\HBC9, \H907F81, \HB512D8E, \H3FE, \HEECAE6, \HD05D866>>,
      <<\HBC7, \H1D1E83, \HE9436D2, \H3FE, \HEE7DB3, \H4E59FF7>>,
      <<\HBC9, \H91919B, \H3CE1B15, \H3FE, \HEE32DC, \H313A8E5>>,
      <<\H3C8, \H59F48A, \H72A4C6D, \H3FE, \HEDEA64, \HC123422>>,
      <<\HBC9, \H312607, \HA28698A, \H3FE, \HEDA450, \H4AC801C>>,
      <<\HBC5, \H8A78F4, \H817895B, \H3FE, \HED60A2, \H1F72E2A>>,
      <<\HBC7, \HC2C9B6, \H7499A1B, \H3FE, \HED1F5D, \H950A897>>,
      <<\H3C4, \H363ED6, \H0C2AC11, \H3FE, \HECE086, \H061892D>>,
      <<\H3C9, \H666093, \HB0664EF, \H3FE, \HECA41E, \HD1D0057>>,
      <<\H3C6, \HECCE1D, \HAA10379, \H3FE, \HEC6A2B, \H5C13CD0>>,
      <<\H3C9, \H3FF8E3, \HF0F1230, \H3FE, \HEC32AF, \H0D7D3DE>>,
      <<\H3C7, \H690CEB, \HB7AAFB0, \H3FE, \HEBFDAD, \H5362A27>>,
      <<\H3C9, \H31DBDE, \HB54E077, \H3FE, \HEBCB29, \H9FDDD0D>>,
      <<\HBC8, \HF94340, \H071A38E, \H3FE, \HEB9B27, \H69D2CA7>>,
      <<\HBC8, \H7DECCD, \HC93A349, \H3FE, \HEB6DAA, \H2CF6642>>,
      <<\HBC7, \H8DEC6B, \HD0F385F, \H3FE, \HEB42B5, \H69D4F82>>,
      <<\HBC8, \H61246E, \HC7B5CF6, \H3FE, \HEB1A4C, \HA5D920F>>,
      <<\H3C9, \H335051, \H8FDD78E, \H3FE, \HEAF473, \H6B527DA>>,
      <<\H3C7, \HB98B72, \HF8A9B05, \H3FE, \HEAD12D, \H497C7FD>>,
      <<\H3C9, \H063E1E, \H21C5409, \H3FE, \HEAB07D, \HD485429>>,
      <<\H3C3, \H4C7855, \H019C6EA, \H3FE, \HEA9268, \HA5946B7>>,
      <<\H3C9, \H432E62, \HB64C035, \H3FE, \HEA76F1, \H5AD2148>>,
      <<\HBC8, \HCE44A6, \H199769F, \H3FE, \HEA5E1B, \H976DC09>>,
      <<\HBC8, \HC33C53, \HBEF4DA8, \H3FE, \HEA47EB, \H03A5585>>,
      <<\HBC8, \H453788, \H92BE9AE, \H3FE, \HEA3463, \H4CCC320>>,
      <<\HBC9, \H3CEDD7, \H8565858, \H3FE, \HEA2388, \H2552225>>,
      <<\H3C5, \H710AA8, \H07E1964, \H3FE, \HEA155D, \H44CA973>>,
      <<\HBC9, \H3B3EFB, \HF5E2228, \H3FE, \HEA09E6, \H67F3BCD>>,
      <<\HBC6, \HA12AD8, \H734B982, \H3FE, \HEA0127, \H50BDABF>>,
      <<\HBC6, \H367EFB, \H86DA9EE, \H3FE, \HE9FB23, \HC651A2F>>,
      <<\HBC8, \H0DC3D5, \H4E08851, \H3FE, \HE9F7DF, \H9519484>>,
      <<\HBC7, \H81F647, \HE5A3ECF, \H3FE, \HE9F75E, \H8EC5F74>>,
      <<\HBC8, \H6EE4AC, \H08B7DB0, \H3FE, \HE9F9A4, \H8A58174>>,
      <<\HBC8, \H619321, \HE55E68A, \H3FE, \HE9FEB5, \H64267C9>>,
      <<\H3C9, \H09CCB5, \HE09D4D3, \H3FE, \HEA0694, \HFDE5D3F>>,
      <<\HBC7, \HB32DCB, \H94DA51D, \H3FE, \HEA1147, \H3EB0187>>,
      <<\H3C9, \H4ECFD5, \H467C06B, \H3FE, \HEA1ED0, \H130C132>>,
      <<\H3C6, \H5EBE1A, \HBD66C55, \H3FE, \HEA2F33, \H6CF4E62>>,
      <<\HBC8, \H8A1C52, \HFB3CF42, \H3FE, \HEA4275, \H43E1A12>>,
      <<\HBC9, \H369B6F, \H13B3734, \H3FE, \HEA5899, \H94CCE13>>,
      <<\HBC8, \H05E843, \HA19FF1E, \H3FE, \HEA71A4, \H623C7AD>>,
      <<\HBC9, \H4D450D, \H872576E, \H3FE, \HEA8D99, \HB4492ED>>,
      <<\H3C9, \H0AD675, \HB0E8A00, \H3FE, \HEAAC7D, \H98A6699>>,
      <<\H3C8, \HDB72FC, \H1F0EAB4, \H3FE, \HEACE54, \H22AA0DB>>,
      <<\HBC6, \H5B6609, \HCC5E7FF, \H3FE, \HEAF321, \H6B5448C>>,
      <<\H3C7, \HBF6835, \H9F35F44, \H3FE, \HEB1AE9, \H9157736>>,
      <<\HBC9, \H3091FA, \H71E3D83, \H3FE, \HEB45B0, \HB91FFC6>>,
      <<\HBC5, \HDA9B88, \HB6C1E29, \H3FE, \HEB737B, \H0CDC5E5>>,
      <<\HBC6, \HC23F97, \HC90B959, \H3FE, \HEBA44C, \HBC8520F>>,
      <<\HBC9, \H243432, \H2F4F9AA, \H3FE, \HEBD829, \HFDE4E50>>,
      <<\HBC8, \H5CA6CD, \H7668E4B, \H3FE, \HEC0F17, \H0CA07BA>>,
      <<\H3C7, \H1AFFC2, \HB91CE27, \H3FE, \HEC4918, \H2A3F090>>,
      <<\H3C6, \HDD235E, \H10A73BB, \H3FE, \HEC8631, \H9E32323>>,
      <<\HBC8, \H7C5042, \H2622263, \H3FE, \HECC667, \HB5DE565>>,
      <<\H3C8, \HB1C86E, \H3E231D5, \H3FE, \HED09BE, \HC4A2D33>>,
      <<\HBC9, \H1BBD1D, \H3BCBB15, \H3FE, \HED503B, \H23E255D>>,
      <<\H3C9, \H0CC319, \HCEE31D2, \H3FE, \HED99E1, \H330B358>>,
      <<\H3C8, \H469846, \HE735AB3, \H3FE, \HEDE6B5, \H579FDBF>>,
      <<\HBC8, \H2DFCD9, \H78E9DB4, \H3FE, \HEE36BB, \HFD3F37A>>,
      <<\H3C8, \HC1A779, \H2CB3387, \H3FE, \HEE89F9, \H95AD3AD>>,
      <<\HBC9, \H07B8F4, \HAD1D9FA, \H3FE, \HEEE072, \H98DB666>>,
      <<\HBC5, \H5C3D95, \H6DCAEBA, \H3FE, \HEF3A2B, \H84F15FB>>,
      <<\HBC9, \H0A40E3, \HDA6F640, \H3FE, \HEF9728, \HDE5593A>>,
      <<\HBC6, \H8D6F43, \H8AD9334, \H3FE, \HEFF76F, \H2FB5E47>>,
      <<\HBC9, \H1EEE26, \HB588A35, \H3FE, \HF05B03, \H0A1064A>>,
      <<\H3C7, \H4FFD70, \HA5FDDCD, \H3FE, \HF0C1E9, \H04BC1D2>>,
      <<\HBC9, \H1BDFBF, \HA9298AC, \H3FE, \HF12C25, \HBD71E09>>,
      <<\H3C7, \H36EAE3, \H0AF0CB3, \H3FE, \HF199BD, \HD85529C>>,
      <<\H3C8, \HEE3325, \HC9FFD94, \H3FE, \HF20AB5, \HFFFD07A>>,
      <<\H3C8, \H4E08FD, \H10959AC, \H3FE, \HF27F12, \HE57D14B>>,
      <<\H3C6, \H3CDAF3, \H84E1A67, \H3FE, \HF2F6D9, \H406E7B5>>,
      <<\H3C6, \H76B2C6, \HC921968, \H3FE, \HF3720D, \HCEF9069>>,
      <<\HBC8, \H08A188, \H3CCB5D2, \H3FE, \HF3F0B5, \H55DC3FA>>,
      <<\HBC8, \HFAD5D3, \HFFFFA6F, \H3FE, \HF472D4, \HA07897C>>,
      <<\HBC9, \H00DAE3, \H875A949, \H3FE, \HF4F870, \H80D89F2>>,
      <<\H3C7, \H4A385A, \H63D07A7, \H3FE, \HF5818D, \HCFBA487>>,
      <<\HBC8, \H2919E2, \H040220F, \H3FE, \HF60E31, \H6C98398>>,
      <<\H3C8, \HE5A50D, \H5C192AC, \H3FE, \HF69E60, \H3DB3285>>,
      <<\H3C8, \H43A59A, \HC016B4B, \H3FE, \HF7321F, \H301B460>>,
      <<\HBC8, \H2D5210, \H7B43E1F, \H3FE, \HF7C973, \H37B9B5F>>,
      <<\HBC8, \H92AB93, \HB470DC9, \H3FE, \HF86461, \H4F5A129>>,
      <<\H3C7, \H4B6046, \H03A88D3, \H3FE, \HF902EE, \H78B3FF6>>,
      <<\H3C8, \H3C5EC5, \H19D7271, \H3FE, \HF9A51F, \HBC74C83>>,
      <<\HBC8, \HFF7128, \HFD391F0, \H3FE, \HFA4AFA, \H2A490DA>>,
      <<\HBC8, \HDAE98E, \H223747D, \H3FE, \HFAF482, \HD8E67F1>>,
      <<\H3C8, \HEC3BC4, \H1AA2008, \H3FE, \HFBA1BE, \HE615A27>>,
      <<\H3C8, \H42B94C, \H3A9EB32, \H3FE, \HFC52B3, \H76BBA97>>,
      <<\H3C8, \HA64A93, \H1D185EE, \H3FE, \HFD0765, \HB6E4540>>,
      <<\HBC8, \HE37BAE, \H43BE3ED, \H3FE, \HFDBFDA, \HD9CBE14>>,
      <<\H3C7, \H7893B4, \HD91CD9D, \H3FE, \HFE7C18, \H19E90D8>>,
      <<\H3C5, \H305C14, \H160CC89, \H3FE, \HFF3C22, \HB8F71F1>>>>

\* the k of kd = Shift + k, read from the low bits of kd
ExpK(kd) == IF kd.hi = 3 * Pow2(23) THEN kd.lo ELSE kd.lo - Base

ExpTail(row) == DOfBits(row[1], row[2], row[3])

ExpScaleCarried(se, k, m, ml) == DOfBits(se + (k \div 128) + (m \div Pow2(24)), m % Pow2(24), ml)

\* asdouble(T[idx + 1] + (ki << 45))
ExpScale(row, k) == ExpScaleCarried(row[4], k, row[5] + (k % 128) * Pow2(17), row[6])

\* scale + scale * tmp; for 512 <= |x| and k < 0 without the fused instruction
ExpScaled(special, k, scale, tmp) ==
    IF special /\ k < 0 THEN DAdd(scale, DMul(scale, tmp))
    ELSE DFma(scale, tmp, scale)

ExpSquared(special, k, r, row, r2) ==
    ExpScaled(special, k, ExpScale(row, k),
              DFma(DMul(r2, r2), DFma(r, ExpC5, ExpC4),
                   DFma(DFma(r, ExpC3, ExpC2), r2, DAdd(r, ExpTail(row)))))

ExpTabled(special, k, r, row) == ExpSquared(special, k, r, row, DMul(r, r))

ExpReduced(x, special, k, kd) ==
    ExpTabled(special, k, DFma(kd, NegLn2loN, DFma(kd, NegLn2hiN, x)), ExpTab[(k % 128) + 1])

ExpShifted(x, special, kd) == ExpReduced(x, special, ExpK(kd), DSub(kd, Shift))

\* exp(x), |x| < 708
DExp(x) ==
    IF IsZero(x) \/ x.exp < -106 THEN DAdd(DOne, x)
    ELSE ExpShifted(x, x.exp >= -43, DFma(x, InvLn2N, Shift))

Ln2hi == DOfBits(\H3FE, \H62E42F, \HEFA3800)

Ln2lo == DOfBits(\H3D2, \HEF3579, \H3C76730)

LogA0 == DOfBits(\HBFE, \H000000, \H0000001)

LogA1 == DOfBits(\H3FD, \H555555, \H551305B)

LogA2 == DOfBits(\HBFC, \HFFFFFF, \HFEB4590)

LogA3 == DOfBits(\H3FC, \H999B32, \H4F10111)

LogA4 == DOfBits(\HBFC, \H55575E, \H506C89F)

LogB0 == DOfBits(\HBFE, \H000000, \H0000000)

LogB1 == DOfBits(\H3FD, \H555555, \H5555577)

LogB2 == DOfBits(\HBFC, \HFFFFFF, \HFFFFDCB)

LogB3 == DOfBits(\H3FC, \H999999, \H995DD0C)

LogB4 == DOfBits(\HBFC, \H555555, \H56745A7)

LogB5 == DOfBits(\H3FC, \H24924A, \H344DE30)

LogB6 == DOfBits(\HBFB, \HFFFFFA, \H4423D65)

LogB7 == DOfBits(\H3FB, \HC71842, \H82AD6CA)

LogB8 == DOfBits(\HBFB, \H999EB4, \H3B068FF)

LogB9 == DOfBits(\H3FB, \H78182F, \H7AFD085)

LogB10 == DOfBits(\HBFB, \H552137, \H5D145CD)

\* 0x1p27
LogSplit == DOfBits(\H41A, \H000000, \H0000000)

\* 1.0 - 0x1p-4 and 1.0 + 0x1.09p-4
LogLo == DOfBits(\H3FE, \HE00000, \H0000000)

LogHi == DOfBits(\H3FF, \H109000, \H0000000)

\* __log_data.tab: for i = 0..127 the bits of invc and of logc
LogTab ==
    <<<<\H3FF, \H734F0C, \H3E0DE9F, \HBFD, \H7CC7F7, \H9E69000>>,
      <<\H3FF, \H713786, \HA2CE91F, \HBFD, \H76FEEC, \H20D0000>>,
      <<\H3FF, \H6F2600, \H8FAB5A0, \HBFD, \H713E31, \H351E000>>,
      <<\H3FF, \H6D1A61, \HF138C7D, \HBFD, \H6B85B3, \H8287800>>,
      <<\H3FF, \H6B1490, \HBC5B4D1, \HBFD, \H65D559, \H0807800>>,
      <<\H3FF, \H691473, \H32F0CBA, \HBFD, \H602D07, \H6180000>>,
      <<\H3FF, \H6719F1, \H8224223, \HBFD, \H5A8CA8, \H6909000>>,
      <<\H3FF, \H6524F9, \H9A51ED9, \HBFD, \H54F435, \H6035000>>,
      <<\H3FF, \H63356A, \HA8F24C4, \HBFD, \H4F637C, \H36B4000>>,
      <<\H3FF, \H614B36, \HB9DDC14, \HBFD, \H49DA7F, \HDA85000>>,
      <<\H3FF, \H5F6645, \H2C65C4C, \HBFD, \H445923, \H989A800>>,
      <<\H3FF, \H5D867B, \H5912C4F, \HBFD, \H3EDF43, \H9B0B800>>,
      <<\H3FF, \H5BABCC, \HB5B90DE, \HBFD, \H396CE4, \H48F7000>>,
      <<\H3FF, \H59D61F, \H2D91A78, \HBFD, \H3401E1, \H7BDA000>>,
      <<\H3FF, \H580561, \H2465687, \HBFD, \H2E9E2E, \HF468000>>,
      <<\H3FF, \H56397C, \HEE76BD3, \HBFD, \H2941B3, \H830E000>>,
      <<\H3FF, \H54725E, \H2A77F93, \HBFD, \H23EC58, \HCDA8800>>,
      <<\H3FF, \H52AFF4, \H2064583, \HBFD, \H1E9E12, \H9279000>>,
      <<\H3FF, \H50F22D, \HBB2BDDF, \HBFD, \H1956D2, \HB48F800>>,
      <<\H3FF, \H4F38F4, \H734DED7, \HBFD, \H141679, \HAB9F800>>,
      <<\H3FF, \H4D843C, \HFDE2840, \HBFD, \H0EDD09, \H4EF9800>>,
      <<\H3FF, \H4BD3EC, \H078A3C8, \HBFD, \H09AA51, \H8DB1000>>,
      <<\H3FF, \H4A27FC, \H3E0258A, \HBFD, \H047E65, \H263B800>>,
      <<\H3FF, \H488052, \H4D48434, \HBFC, \HFEB224, \H586F000>>,
      <<\H3FF, \H46DCE1, \HB192D0B, \HBFC, \HF474A7, \H517B000>>,
      <<\H3FF, \H453D9D, \H3391854, \HBFC, \HEA4443, \HD103000>>,
      <<\H3FF, \H43A274, \H4B4845A, \HBFC, \HE020D4, \H4E9B000>>,
      <<\H3FF, \H420B54, \H115F8FB, \HBFC, \HD60A22, \H977F000>>,
      <<\H3FF, \H40782D, \HA3EF4B1, \HBFC, \HCC0010, \H4959000>>,
      <<\H3FF, \H3EE8F5, \HD57FE8F, \HBFC, \HC20295, \H6891000>>,
      <<\H3FF, \H3D5D9A, \H00B4CE9, \HBFC, \HB81178, \HD811000>>,
      <<\H3FF, \H3BD60C, \H010C12B, \HBFC, \HAE2C9C, \HCD3D000>>,
      <<\H3FF, \H3A5242, \HB75DAB8, \HBFC, \HA45402, \HE129000>>,
      <<\H3FF, \H38D22C, \HD9FD002, \HBFC, \H9A8776, \H81DF000>>,
      <<\H3FF, \H3755BC, \H5847A1C, \HBFC, \H90C6D6, \H9483000>>,
      <<\H3FF, \H35DCE4, \H9AD36E2, \HBFC, \H87120A, \H645C000>>,
      <<\H3FF, \H346799, \H84DD440, \HBFC, \H7D68FB, \H4143000>>,
      <<\H3FF, \H32F5CC, \HEFFCB24, \HBFC, \H73CB83, \HC627000>>,
      <<\H3FF, \H318777, \H5A10D49, \HBFC, \H6A39A9, \HB376000>>,
      <<\H3FF, \H301C83, \H73E3990, \HBFC, \H60B315, \H4B7A000>>,
      <<\H3FF, \H2EB4EB, \HB95F841, \HBFC, \H5737D7, \H6243000>>,
      <<\H3FF, \H2D50A0, \H219A9D1, \HBFC, \H4DC7B8, \HFC23000>>,
      <<\H3FF, \H2BEF9A, \H8B7FD2A, \HBFC, \H4462C5, \H1D20000>>,
      <<\H3FF, \H2A91C7, \HA0C1BAB, \HBFC, \H3B08AB, \HC830000>>,
      <<\H3FF, \H293726, \H014B530, \HBFC, \H31B996, \HB490000>>,
      <<\H3FF, \H27DFA5, \H757A1F5, \HBFC, \H287549, \H0A44000>>,
      <<\H3FF, \H268B39, \HB1D3BBF, \HBFC, \H1F3B9F, \H879A000>>,
      <<\H3FF, \H2539D8, \H38FF5BD, \HBFC, \H160C82, \H52CA000>>,
      <<\H3FF, \H23EB7A, \HAC9083B, \HBFC, \H0CE7F5, \H7F72000>>,
      <<\H3FF, \H22A012, \HBA940B6, \HBFC, \H03CDC4, \H9FEA000>>,
      <<\H3FF, \H215799, \H6CC4132, \HBFB, \HF57BDB, \HC4B8000>>,
      <<\H3FF, \H201201, \HDD2FC9B, \HBFB, \HE37089, \H6404000>>,
      <<\H3FF, \H1ECF44, \H94D480B, \HBFB, \HD17983, \HEF94000>>,
      <<\H3FF, \H1D8F55, \H28F6569, \HBFB, \HBF9674, \HED8A000>>,
      <<\H3FF, \H1C5231, \H1577E7C, \HBFB, \HADC792, \H02F6000>>,
      <<\H3FF, \H1B17C7, \H4CB26E9, \HBFB, \H9C0C3E, \H7288000>>,
      <<\H3FF, \H19E010, \HC2C1AB6, \HBFB, \H8A646B, \H372C000>>,
      <<\H3FF, \H18AB07, \HBB670BD, \HBFB, \H78D01B, \H3AC0000>>,
      <<\H3FF, \H1778A2, \H5EFBCB6, \HBFB, \H674F14, \H5380000>>,
      <<\H3FF, \H1648D3, \H54C31DA, \HBFB, \H55E0E6, \HD878000>>,
      <<\H3FF, \H151B99, \H0275FDD, \HBFB, \H4485CD, \HEA1E000>>,
      <<\H3FF, \H13F0EA, \H432D24C, \HBFB, \H333D94, \HD6AA000>>,
      <<\H3FF, \H12C8B7, \H210F9DA, \HBFB, \H22079F, \H8C56000>>,
      <<\H3FF, \H11A302, \H8ECB531, \HBFB, \H10E469, \H8622000>>,
      <<\H3FF, \H107FBD, \HA8434AF, \HBFA, \HFFA6C6, \HAD20000>>,
      <<\H3FF, \H0F5EE0, \HF4E6BB3, \HBFA, \HDDA8D4, \HA774000>>,
      <<\H3FF, \H0E4065, \HD2A9FCE, \HBFA, \HBBCECE, \H4850000>>,
      <<\H3FF, \H0D2446, \H32CA521, \HBFA, \H9A1894, \H012C000>>,
      <<\H3FF, \H0C0A77, \HCE2981A, \HBFA, \H788583, \H302C000>>,
      <<\H3FF, \H0AF2F8, \H3C636D1, \HBFA, \H5715E6, \H7D68000>>,
      <<\H3FF, \H09DDB9, \H8A01339, \HBFA, \H35C8A4, \H9658000>>,
      <<\H3FF, \H08CABA, \HF52E7DF, \HBFA, \H149E36, \H4154000>>,
      <<\H3FF, \H07B9F2, \HF4E28FB, \HBF9, \HE72C08, \H2EB8000>>,
      <<\H3FF, \H06AB58, \HC358F19, \HBF9, \HA55F15, \H2528000>>,
      <<\H3FF, \H059EEA, \H5ECF92C, \HBF9, \H63D62C, \HF818000>>,
      <<\H3FF, \H04949C, \HDD12C90, \HBF9, \H228FB8, \HCAA0000>>,
      <<\H3FF, \H038C6C, \H6F0ADA9, \HBF8, \HC317B2, \H0F90000>>,
      <<\H3FF, \H028651, \H37932A9, \HBF8, \H419355, \HDAA0000>>,
      <<\H3FF, \H018242, \H7EA7348, \HBF7, \H81203C, \H2EC0000>>,
      <<\H3FF, \H008040, \H614B195, \HBF6, \H004097, \H9240000>>,
      <<\H3FE, \HFE01FF, \H726FA1A, \H3F6, \HFEFF38, \H4900000>>,
      <<\H3FE, \HFA11CC, \H261EA74, \H3F8, \H7DC413, \H53D0000>>,
      <<\H3FE, \HF6310B, \H081992E, \H3F9, \H3CEA3C, \H4C28000>>,
      <<\H3FE, \HF25F63, \HCEEADCD, \H3F9, \HB9FC11, \H4890000>>,
      <<\H3FE, \HEE9C80, \H39113E7, \H3FA, \H1B0D8C, \HE110000>>,
      <<\H3FE, \HEAE807, \H8CBB1AB, \H3FA, \H58A5BD, \H001C000>>,
      <<\H3FE, \HE741AA, \H29D0C9B, \H3FA, \H95C834, \H0D88000>>,
      <<\H3FE, \HE3A918, \H30A99B5, \H3FA, \HD276AE, \HF578000>>,
      <<\H3FE, \HE01E00, \H9609A56, \H3FB, \H07598E, \H598C000>>,
      <<\H3FE, \HDCA01E, \H577BB98, \H3FB, \H253F5E, \H30D2000>>,
      <<\H3FE, \HD92F20, \HB7C9103, \H3FB, \H42EDD8, \HB380000>>,
      <<\H3FE, \HD5CAC6, \H6FB5CCE, \H3FB, \H606598, \H757C000>>,
      <<\H3FE, \HD272CA, \HA5EDE9D, \H3FB, \H7DA763, \H56A0000>>,
      <<\H3FE, \HCF26E3, \HE6B2CCD, \H3FB, \H9AB434, \HE1C6000>>,
      <<\H3FE, \HCBE6DA, \H2A77902, \H3FB, \HB78C7B, \HB0D6000>>,
      <<\H3FE, \HC8B266, \HD37086D, \H3FB, \HD43133, \H2E72000>>,
      <<\H3FE, \HC5894B, \HD5D5804, \H3FB, \HF0A317, \H1DE6000>>,
      <<\H3FE, \HC26B53, \H3BB9F8C, \H3FC, \H067152, \HB914000>>,
      <<\H3FE, \HBF583E, \HEECE73F, \H3FC, \H147858, \H292B000>>,
      <<\H3FE, \HBC4FD7, \H5DB96C1, \H3FC, \H2266EC, \HDCA3000>>,
      <<\H3FE, \HB951E0, \HC864A28, \H3FC, \H303D7A, \H6C55000>>,
      <<\H3FE, \HB65E2C, \H5EF3E2C, \H3FC, \H3DFC33, \HC331000>>,
      <<\H3FE, \HB37486, \H7C9888B, \H3FC, \H4BA366, \HB7A8000>>,
      <<\H3FE, \HB094B2, \H11D304A, \H3FC, \H593392, \H8D1F000>>,
      <<\H3FE, \HADBE88, \H5F2EF7E, \H3FC, \H66ACD2, \H418F000>>,
      <<\H3FE, \HAAF1D3, \H1603DA2, \H3FC, \H740F8E, \HC669000>>,
      <<\H3FE, \HA82E63, \HFD358A7, \H3FC, \H815C0F, \H51AF000>>,
      <<\H3FE, \HA5740E, \HF09738B, \H3FC, \H8E9295, \H4F68000>>,
      <<\H3FE, \HA2C2A9, \H0AB4B27, \H3FC, \H9BB360, \H2F84000>>,
      <<\H3FE, \HA01A01, \H393F2D1, \H3FC, \HA8BED1, \HC2C0000>>,
      <<\H3FE, \H9D79F2, \H4DB3C1B, \H3FC, \HB5B515, \HC01D000>>,
      <<\H3FE, \H9AE250, \H5C7B190, \H3FC, \HC2967C, \HCBCC000>>,
      <<\H3FE, \H9852EF, \H297CE2F, \H3FC, \HCF635D, \H5486000>>,
      <<\H3FE, \H95CBAE, \HEA44B75, \H3FC, \HDC1BD3, \H446C000>>,
      <<\H3FE, \H934C69, \HDE74838, \H3FC, \HE8C01B, \H8CFE000>>,
      <<\H3FE, \H90D4F2, \HF6752E6, \H3FC, \HF5509C, \H0179000>>,
      <<\H3FE, \H8E6528, \HEFFD79D, \H3FD, \H00E6C1, \H21FB800>>,
      <<\H3FE, \H8BFCE9, \HFCC007C, \H3FD, \H071B80, \HE93D000>>,
      <<\H3FE, \H899C0D, \HABEC30E, \H3FD, \H0D46B9, \HE867000>>,
      <<\H3FE, \H87427A, \HA2317FB, \H3FD, \H136873, \H34BD000>>,
      <<\H3FE, \H84F00A, \HCB39A08, \H3FD, \H1980D6, \H7234800>>,
      <<\H3FE, \H82A49E, \H8653E55, \H3FD, \H1F8FFE, \H0CC8000>>,
      <<\H3FE, \H806019, \H5F40260, \H3FD, \H2595FD, \H7636800>>,
      <<\H3FE, \H7E2256, \H3E0A329, \H3FD, \H2B9300, \H914A800>>,
      <<\H3FE, \H7BEB37, \H7DCB5AD, \H3FD, \H318721, \H0436000>>,
      <<\H3FE, \H79BAA6, \H79725C2, \H3FD, \H377266, \HDEC1800>>,
      <<\H3FE, \H77907F, \H2170657, \H3FD, \H3D54FF, \HBAF3000>>,
      <<\H3FE, \H756CAD, \HBD6130C, \H3FD, \H432EEE, \H32FE000>>>>

LogInvC(row) == DOfBits(row[1], row[2], row[3])

LogC(row) == DOfBits(row[4], row[5], row[6])

LogTerms(kd, w, r, hi, r2) ==
    DAdd(DFma(DMul(r, r2),
              DFma(DFma(r, LogA4, LogA3), r2, DFma(r, LogA2, LogA1)),
              DFma(r2, LogA0, DFma(kd, Ln2lo, DAdd(DSub(w, hi), r)))),
         hi)

LogReduced(kd, w, r) == LogTerms(kd, w, r, DAdd(r, w), DMul(r, r))

LogRow(kd, z, row) ==
    LogReduced(kd, DFma(kd, Ln2hi, LogC(row)), DFma(z, LogInvC(row), DNeg(DOne)))

\* x = 2^k * z with z in [OFF, 2 * OFF), OFF = 0x3fe6000000000000, and i the
\* subinterval of z
LogTabled(x, k, i) == LogRow(FromInt(k), [x EXCEPT !.exp = x.exp - k], LogTab[i + 1])

LogFar(x, mh) ==
    IF mh >= \H600000
    THEN LogTabled(x, x.exp + 1075 - \H3FE, (mh - \H600000) \div Pow2(17))
    ELSE LogTabled(x, x.exp + 1075 - \H3FF, (mh + Pow2(24) - \H600000) \div Pow2(17))

LogNearEnd(r, r3, rhi, rh2, p, hi) ==
    DAdd(hi, DFma(p, r3, DFma(DMul(LogB0, DSub(r, rhi)), DAdd(r, rhi),
                              DFma(rh2, LogB0, DSub(r, hi)))))

LogNearHi(r, r3, rhi, rh2, p) == LogNearEnd(r, r3, rhi, rh2, p, DFma(rh2, LogB0, r))

LogNearCu(r, r2, r3, rhi) ==
    LogNearHi(r, r3, rhi, DMul(rhi, rhi),
              DFma(DFma(DFma(r3, LogB10, DFma(r2, LogB9, DFma(r, LogB8, LogB7))), r3,
                        DFma(r2, LogB6, DFma(r, LogB5, LogB4))),
                   r3, DFma(r2, LogB3, DFma(r, LogB2, LogB1))))

LogNearSq(r, r2) ==
    LogNearCu(r, r2, DMul(r, r2), DFma(DNeg(LogSplit), r, DFma(r, LogSplit, r)))

\* x close to 1: r = x - 1
LogNear(r) == LogNearSq(r, DMul(r, r))

\* log(x) for a double x > 0
DLog(x) ==
    IF x = DOne THEN DZero
    ELSE IF ~DLt(x, LogLo) /\ DLt(x, LogHi) THEN LogNear(DSub(x, DOne))
    ELSE LogFar(x, x.hi - Pow2(24))

----------------------------------------------------------------------------
(* ZeroCurve: std::map<double, double> _curveData, kept as the sequence of  *)
(* its nodes [t, r] in the order an iteration of the map yields them.       *)

\* map::lower_bound: the position of the first node whose key is not less
\* than t, Len(c) + 1 standing for end()
LowerBound(c, t) ==
    LET notLess == {i \in 1..Len(c) : ~DLt(c[i].t, t)}
    IN  IF notLess = {} THEN Len(c) + 1
        ELSE CHOOSE i \in notLess : \A j \in notLess : i <= j

\* a container that appends instead of keeping its keys ordered and unique
AddNodeAppend(c, time, rate) == Append(c, [t |-> time, r |-> rate])

\* _curveData[time] = rate
AddNodeAt(c, time, rate, i) ==
    IF i <= Len(c) /\ ~DLt(time, c[i].t)
    THEN [c EXCEPT ![i].r = rate]
    ELSE SubSeq(c, 1, i - 1) \o <<[t |-> time, r |-> rate]>> \o SubSeq(c, i, Len(c))

\* _curveData[time] = rate
AddNode(c, time, rate) == AddNodeAt(c, time, rate, LowerBound(c, time))

\* Case C of getZeroRate: it_t2 = it, it_t1 = prev(it)
Interpolate(t, t1, t2, r1, r2) ==
    DAdd(DMul(DDiv(DSub(r2, r1), DSub(t2, t1)), DSub(t, t1)), r1)

ZeroRateAt(c, t, it) ==
    IF it = Len(c) + 1 THEN c[Len(c)].r
    ELSE IF it = 1 THEN c[1].r
    ELSE Interpolate(t, c[it - 1].t, c[it].t, c[it - 1].r, c[it].r)

GetZeroRate(c, t) == IF Len(c) = 0 THEN DZero ELSE ZeroRateAt(c, t, LowerBound(c, t))

GetDiscountFactor(c, t) == DExp(DMul(DNeg(GetZeroRate(c, t)), t))

GetMaxMaturity(c) == IF Len(c) = 0 THEN DZero ELSE c[Len(c)].t

\* a guard that never finds the maturity
CountNever(c, mat) == 0

\* map::count on the copy getCurve() returns
Count(c, mat) == IF \E i \in 1..Len(c) : c[i].t = mat THEN 1 ELSE 0

Keys(c) == {c[i].t : i \in 1..Len(c)}

----------------------------------------------------------------------------
(* Bootstrapper::Bootstrapper: std::sort of the copy of the quotes, with     *)
(* the comparison of the lambda.  std::sort leaves the order of quotes with  *)
(* equal maturity unspecified; what it yields is what the library of the     *)
(* build (libstdc++, bits/stl_algo.h) computes: ranges of more than 16       *)
(* elements are partitioned around a median of three, then one insertion     *)
(* sort runs over the whole vector.  The depth limit 2 * floor(log2 n) of    *)
(* the partitioning cannot run out for fewer than 25 elements, which covers  *)
(* every list drawn here.  Ranges are [first, last) over positions 1..Len.   *)

Comp(a, b) == DLt(a.maturity, b.maturity)

Swap(s, i, j) == [s EXCEPT ![i] = s[j], ![j] = s[i]]

MoveMedianToFirst(s, result, a, b, c) ==
    IF Comp(s[a], s[b])
    THEN IF Comp(s[b], s[c]) THEN Swap(s, result, b)
         ELSE IF Comp(s[a], s[c]) THEN Swap(s, result, c)
         ELSE Swap(s, result, a)
    ELSE IF Comp(s[a], s[c]) THEN Swap(s, result, a)
    ELSE IF Comp(s[b], s[c]) THEN Swap(s, result, c)
    ELSE Swap(s, result, b)

RECURSIVE ScanUp(_, _, _)
ScanUp(s, first, pivot) ==
    IF Comp(s[first], s[pivot]) THEN ScanUp(s, first + 1, pivot) ELSE first

RECURSIVE ScanDown(_, _, _)
ScanDown(s, last, pivot) ==
    IF Comp(s[pivot], s[last]) THEN ScanDown(s, last - 1, pivot) ELSE last

\* <<the vector, the cut>>
RECURSIVE UnguardedPartition(_, _, _, _)
UnguardedPartition(s, first, last, pivot) ==
    LET f == ScanUp(s, first, pivot)
        l == ScanDown(s, last - 1, pivot)
    IN  IF ~(f < l) THEN <<s, f>>
        ELSE UnguardedPartition(Swap(s, f, l), f + 1, l, pivot)

RECURSIVE IntrosortLoop(_, _, _)
IntrosortLoop(s, first, last) ==
    IF last - first > 16
    THEN LET mid == first + (last - first) \div 2
             m   == MoveMedianToFirst(s, first, first + 1, mid, last - 1)
             p   == UnguardedPartition(m, first + 1, last, first)
         IN  IntrosortLoop(IntrosortLoop(p[1], p[2], last), first, p[2])
    ELSE s

RECURSIVE LinearInsert(_, _)
LinearInsert(s, i) ==
    IF i > 1 /\ Comp(s[i], s[i - 1]) THEN LinearInsert(Swap(s, i, i - 1), i - 1) ELSE s

RECURSIVE FinalInsertionSort(_, _)
FinalInsertionSort(s, i) ==
    IF i > Len(s) THEN s ELSE FinalInsertionSort(LinearInsert(s, i), i + 1)

\* std::sort(_quotes.begin(), _quotes.end(), comp)
SortQuotes(quotes) ==
    IF Len(quotes) = 0 THEN quotes
    ELSE FinalInsertionSort(IntrosortLoop(quotes, 1, Len(quotes) + 1), 2)

----------------------------------------------------------------------------
(* Bootstrapper::calibrate, one quote                                        *)

\* a payment period of a quarter
QuarterTau == Dec(1, 4)

\* Bootstrapper::FIXED_TAU
FIXED_TAU == Dec(1, 2)

\* the dates FIXED_TAU * i of the loop for (i = 1; i * FIXED_TAU < mat; ++i)
RECURSIVE CalibrateCouponDates(_, _)
CalibrateCouponDates(mat, i) ==
    IF DLt(DMul(FromInt(i), FIXED_TAU), mat)
    THEN <<DMul(FIXED_TAU, FromInt(i))>> \o CalibrateCouponDates(mat, i + 1)
    ELSE <<>>

\* sumDiscountedCoupons after the loop
RECURSIVE SumDiscountedCoupons(_, _, _, _, _)
SumDiscountedCoupons(c, mat, S, i, sum) ==
    IF DLt(DMul(FromInt(i), FIXED_TAU), mat)
    THEN SumDiscountedCoupons(c, mat, S, i + 1,
             DAdd(sum, DMul(DMul(S, FIXED_TAU),
                            GetDiscountFactor(c, DMul(FIXED_TAU, FromInt(i))))))
    ELSE sum

\* tau_n = mat - floor(2.0 * mat) / 2.0
TauN(mat) == DSub(mat, DDiv(DFloor(DMul(DTwo, mat)), DTwo))

\* df_n = (1.0 - sumDiscountedCoupons) / (1.0 + tau_n * S)
DfN(c, mat, S) ==
    DDiv(DSub(DOne, SumDiscountedCoupons(c, mat, S, 1, DZero)),
         DAdd(DOne, DMul(TauN(mat), S)))

\* zeroRate = (df_n > 0) ? -log(df_n) / mat : 0.0
ZeroRate(df, mat) == IF DLt(DZero, df) THEN DDiv(DNeg(DLog(df)), mat) ELSE DZero

----------------------------------------------------------------------------
(* SwapPricer                                                                *)

\* SwapPricer::FIXED_TAU
PricerTau == Dec(1, 2)

\* the dates t of the loop for (t = FIXED_TAU; t < maturity; t += FIXED_TAU)
RECURSIVE AnnuityCouponDates(_, _)
AnnuityCouponDates(maturity, t) ==
    IF DLt(t, maturity)
    THEN <<t>> \o AnnuityCouponDates(maturity, DAdd(t, PricerTau))
    ELSE <<>>

RECURSIVE AnnuityLoop(_, _, _, _)
AnnuityLoop(c, maturity, t, sum) ==
    IF DLt(t, maturity)
    THEN AnnuityLoop(c, maturity, DAdd(t, PricerTau),
                     DAdd(sum, DMul(PricerTau, GetDiscountFactor(c, t))))
    ELSE sum

\* last_tau = maturity - floor(2 * maturity) / 2.0
LastTau(maturity) == DSub(maturity, DDiv(DFloor(DMul(FromInt(2), maturity)), DTwo))

Annuity(c, maturity) ==
    DAdd(AnnuityLoop(c, maturity, PricerTau, DZero),
         DMul(LastTau(maturity), GetDiscountFactor(c, maturity)))

FairRateOf(c, maturity, A) ==
    IF DLt(A, Dec(1, 100000000)) THEN DZero
    ELSE DDiv(DSub(DOne, GetDiscountFactor(c, maturity)), A)

CalculateFaireRate(c, maturity) == FairRateOf(c, maturity, Annuity(c, maturity))

PriceSwap(c, maturity, fixedRate) ==
    DSub(DSub(DOne, GetDiscountFactor(c, maturity)), DMul(fixedRate, Annuity(c, maturity)))

----------------------------------------------------------------------------
(* The inputs drawn                                                          *)

\* the most nodes main puts into its curve before calibrating
MaxSeed == 2

\* the longest list of quotes enumerated
MaxQuotes == 2

\* the most calls of calibrate on one Bootstrapper
MaxCalls == 2

Quote(m, r) == [maturity |-> m, rate |-> r]

\* r_0_5 of main: -log(1.0 / (1.0 + zcb_0_5_rate * ZCB_TAU)) / ZCB_TAU
ZcbRate ==
    DDiv(DNeg(DLog(DDiv(DOne, DAdd(DOne, DMul(Dec(1, 100), Dec(1, 2)))))), Dec(1, 2))

SeedTimes == {Dec(1, 2), FromInt(1)}

SeedRates == {ZcbRate, Dec(1, 10)}

\* the 1Y and 2Y quotes of main, a maturity off the half-year grid, and a
\* quote whose coupons exceed the notional
Quotes ==
    {Quote(FromInt(1), Dec(15, 1000)), Quote(FromInt(2), Dec(19, 1000)),
     Quote(Dec(5, 4), Dec(15, 1000)), Quote(FromInt(2), Dec(3, 2))}

\* the lists of up to n quotes, none of them twice
RECURSIVE ListsOf(_)
ListsOf(n) ==
    IF n = 0 THEN {<<>>}
    ELSE LET shorter == ListsOf(n - 1)
         IN  shorter \union
             {Append(l, q) : <<l, q>> \in {lq \in {k \in shorter : Len(k) = n - 1} \X Quotes :
                                              \A i \in 1..Len(lq[1]) : lq[1][i] # lq[2]}}

\* seventeen quotes, 2Y and 1Y in turn, with the rates 1%, 2%, ..., 17%
TieList ==
    [i \in 1..17 |-> Quote(IF i % 2 = 1 THEN FromInt(2) ELSE FromInt(1),
                          DMul(Dec(1, 100), FromInt(i)))]

QuoteLists == ListsOf(MaxQuotes) \union {TieList}

----------------------------------------------------------------------------
(* The program: main builds its curve with addNode, constructs the           *)
(* Bootstrapper, calls calibrate (once or again) and reprices the quotes.    *)

VARIABLES
    pc,            \* where main is: "setup", "ready", "loop", "verified"
    callerCurve,   \* main's curve
    marketData,    \* the list given to the constructor
    _quotes,       \* Bootstrapper::_quotes
    initialCurve,  \* calibrate's parameter
    curve,         \* calibrate's local curve
    idx,           \* position of the range-for in _quotes
    steps,         \* what each iteration of the current call computed
    runs,          \* the calls of calibrate so far: argument and returned curve
    npv            \* priceSwap of every quote of marketData on the returned curve

vars == <<pc, callerCurve, marketData, _quotes, initialCurve, curve, idx, steps, runs, npv>>

Init ==
    /\ pc = "setup"
    /\ callerCurve = <<>>
    /\ marketData = <<>>
    /\ _quotes = <<>>
    /\ initialCurve = <<>>
    /\ curve = <<>>
    /\ idx = 1
    /\ steps = <<>>
    /\ runs = <<>>
    /\ npv = <<>>

\* main: curve.addNode(t, r)
MainAddNode(t, r) ==
    /\ pc = "setup"
    /\ Len(callerCurve) < MaxSeed \/ Count(callerCurve, t) = 1
    /\ callerCurve' = AddNode(callerCurve, t, r)
    /\ UNCHANGED <<pc, marketData, _quotes, initialCurve, curve, idx, steps, runs, npv>>

\* main: Bootstrapper solver(marketData)
Construct(quotes) ==
    /\ pc = "setup"
    /\ marketData' = quotes
    /\ _quotes' = SortQuotes(quotes)
    /\ pc' = "ready"
    /\ UNCHANGED <<callerCurve, initialCurve, curve, idx, steps, runs, npv>>

\* a calibrate that works on the caller's curve itself
SeedAliased(seed, local) == local

\* main's curve after an addNode of calibrate: calibrate took a copy
SeedAfterAddNode(seed, local) == seed

\* solver.calibrate(curve): the parameter and the local are copies
CalibrateEnter ==
    /\ pc = "ready"
    /\ Len(runs) < MaxCalls
    /\ initialCurve' = callerCurve
    /\ curve' = callerCurve
    /\ idx' = 1
    /\ steps' = <<>>
    /\ pc' = "loop"
    /\ UNCHANGED <<callerCurve, marketData, _quotes, runs, npv>>

\* an iteration that finds the maturity in the curve: continue
CalibrateSkip ==
    /\ pc = "loop"
    /\ idx <= Len(_quotes)
    /\ Count(curve, _quotes[idx].maturity) # 0
    /\ idx' = idx + 1
    /\ steps' = Append(steps, [mat |-> _quotes[idx].maturity, rate |-> _quotes[idx].rate,
                               skipped |-> TRUE, dates |-> <<>>, tau_n |-> DZero,
                               df_n |-> DZero, zeroRate |-> DZero])
    /\ UNCHANGED <<pc, callerCurve, marketData, _quotes, initialCurve, curve, runs, npv>>

\* what an iteration computes for the quote (mat, S) once df_n is known
Step(mat, S, df) ==
    [mat |-> mat, rate |-> S, skipped |-> FALSE, dates |-> CalibrateCouponDates(mat, 1),
     tau_n |-> TauN(mat), df_n |-> df, zeroRate |-> ZeroRate(df, mat)]

\* an iteration that bootstraps the quote and adds its node
CalibrateBootstrap ==
    /\ pc = "loop"
    /\ idx <= Len(_quotes)
    /\ Count(curve, _quotes[idx].maturity) = 0
    /\ steps' = Append(steps, Step(_quotes[idx].maturity, _quotes[idx].rate,
                                   DfN(curve, _quotes[idx].maturity, _quotes[idx].rate)))
    /\ curve' = AddNode(curve, _quotes[idx].maturity, steps'[Len(steps')].zeroRate)
    /\ callerCurve' = SeedAfterAddNode(callerCurve, curve')
    /\ idx' = idx + 1
    /\ UNCHANGED <<pc, marketData, _quotes, initialCurve, runs, npv>>

\* return curve; main keeps its own curve or assigns the returned one to it
CalibrateReturn(assign) ==
    /\ pc = "loop"
    /\ idx > Len(_quotes)
    /\ runs' = Append(runs, [arg |-> initialCurve, result |-> curve])
    /\ callerCurve' = IF assign THEN curve ELSE callerCurve
    /\ pc' = "ready"
    /\ UNCHANGED <<marketData, _quotes, initialCurve, curve, idx, steps, npv>>

\* main's verification loop over marketData, on the curve calibrate returned
Verify ==
    /\ pc = "ready"
    /\ runs # <<>>
    /\ npv' = [i \in 1..Len(marketData) |->
                  [mat |-> marketData[i].maturity, rate |-> marketData[i].rate,
                   dates |-> AnnuityCouponDates(marketData[i].maturity, PricerTau),
                   last_tau |-> LastTau(marketData[i].maturity),
                   value |-> PriceSwap(runs[Len(runs)].result,
                                       marketData[i].maturity, marketData[i].rate)]]
    /\ pc' = "verified"
    /\ UNCHANGED <<callerCurve, marketData, _quotes, initialCurve, curve, idx, steps, runs>>

Next ==
    \/ \E t \in SeedTimes, r \in SeedRates : MainAddNode(t, r)
    \/ \E quotes \in QuoteLists : Construct(quotes)
    \/ CalibrateEnter
    \/ CalibrateSkip
    \/ CalibrateBootstrap
    \/ \E assign \in BOOLEAN : CalibrateReturn(assign)
    \/ Verify

Spec == Init /\ [][Next]_vars

----------------------------------------------------------------------------
(* Properties                                                                *)

Pillars(c) == {c[i] : i \in 1..Len(c)}

StrictlyIncreasing(c) == \A i \in 1..Len(c) - 1 : DLt(c[i].t, c[i + 1].t)

DLe(x, y) == x = y \/ DLt(x, y)

DAbs(x) == [x EXCEPT !.sgn = 1]

\* the curves addNode has built: main's and calibrate's
BuiltCurves == {callerCurve, curve}

\* the iterations of the current call that bootstrapped a quote
Bootstrapped == {k \in 1..Len(steps) : ~steps[k].skipped}

\* T is a multiple of the payment period of half a year
OnGrid(T) == DFloor(DMul(DTwo, T)) = DMul(DTwo, T)

\* 1e-9
Tolerance == Dec(1, 1000000000)

\* C1: every quote that the last call of calibrate bootstrapped reprices to
\* zero, within 1e-9, on the curve that call returned.
RepricingIdentity ==
    pc = "verified" =>
        \A i \in 1..Len(npv) :
            (\E k \in Bootstrapped :
                steps[k].mat = npv[i].mat /\ steps[k].rate = npv[i].rate)
            => DLe(DAbs(npv[i].value), Tolerance)

\* C2: getZeroRate at the maturity of a stored pillar returns exactly the
\* stored rate, whichever position the pillar has.
InterpolationExact ==
    \A c \in BuiltCurves : \A i \in 1..Len(c) : GetZeroRate(c, c[i].t) = c[i].r

QueryTimes == {Dec(1, 4), Dec(1, 2), Dec(3, 4), FromInt(1), Dec(3, 2), FromInt(2), FromInt(3)}

\* r1 + (r2 - r1) * (t - t1) / (t2 - t1), in either order of evaluation
Linear(t, t1, t2, r1, r2) ==
    {DAdd(r1, DDiv(DMul(DSub(r2, r1), DSub(t, t1)), DSub(t2, t1))),
     DAdd(r1, DMul(DDiv(DSub(r2, r1), DSub(t2, t1)), DSub(t, t1)))}

\* C3: getZeroRate is the first pillar's rate at or below the first
\* maturity, the last pillar's rate at or above the last maturity, and the
\* linear interpolation of the bracketing pillars strictly between.
ExtrapolationFlat ==
    \A c \in BuiltCurves : \A t \in QueryTimes :
        Len(c) > 0 =>
            /\ DLe(t, c[1].t) => GetZeroRate(c, t) = c[1].r
            /\ DLe(c[Len(c)].t, t) => GetZeroRate(c, t) = c[Len(c)].r
            /\ \A i \in 2..Len(c) :
                   (DLt(c[i - 1].t, t) /\ DLe(t, c[i].t) /\ DLt(t, c[Len(c)].t))
                   => GetZeroRate(c, t) \in Linear(t, c[i - 1].t, c[i].t, c[i - 1].r, c[i].r)

\* C4: an iteration that computes df_n <= 0 makes calibrate fail, and leaves
\* no pillar for that maturity in the curve.
NonPositiveSurfaced ==
    \A k \in Bootstrapped :
        DLe(steps[k].df_n, DZero) => (pc = "failed" /\ steps[k].mat \notin Keys(curve))

\* C5: two calls of calibrate with the same curve return the same curve;
\* while a call runs the caller's curve is the one it passed, and the
\* Bootstrapper's quotes are those the constructor sorted.
Idempotence ==
    /\ \A i, j \in 1..Len(runs) : runs[i].arg = runs[j].arg => runs[i].result = runs[j].result
    /\ pc = "loop" => callerCurve = initialCurve
    /\ pc # "setup" => _quotes = SortQuotes(marketData)

IdempotenceWitness ==
    /\ Len(runs) = 2
    /\ runs[1].arg = runs[2].arg
    /\ Len(runs[1].result) >= Len(runs[1].arg) + 2

\* C6: the maturities of every curve are strictly increasing, and the
\* curve calibrate returns has the maturities of its argument and of the
\* quotes, no other.
MonotonicOrdering ==
    /\ \A c \in BuiltCurves : StrictlyIncreasing(c)
    /\ \A n \in 1..Len(runs) :
           /\ StrictlyIncreasing(runs[n].result)
           /\ Keys(runs[n].result) =
                  Keys(runs[n].arg) \union {marketData[i].maturity : i \in 1..Len(marketData)}

MonotonicOrderingWitness ==
    /\ Len(runs) >= 1
    /\ Len(runs[1].arg) >= 1
    /\ Len(runs[1].result) >= 3
    /\ \E i, j \in 1..Len(marketData) :
           i < j /\ DLt(marketData[j].maturity, marketData[i].maturity)

\* C7: an iteration whose maturity is a multiple of half a year uses the
\* whole period as its last period, and so does the annuity.
StubOnGrid ==
    /\ \A k \in Bootstrapped : OnGrid(steps[k].mat) => steps[k].tau_n = FIXED_TAU
    /\ \A i \in 1..Len(npv) : OnGrid(npv[i].mat) => npv[i].last_tau = PricerTau

\* the position a stable sort gives the quote q among the sorted quotes s
RECURSIVE StableInsert(_, _)
StableInsert(s, q) ==
    IF s # <<>> /\ DLt(q.maturity, s[Len(s)].maturity)
    THEN Append(StableInsert(SubSeq(s, 1, Len(s) - 1), q), s[Len(s)])
    ELSE Append(s, q)

RECURSIVE StableSort(_, _)
StableSort(l, n) == IF n = 0 THEN <<>> ELSE StableInsert(StableSort(l, n - 1), l[n])

FirstWith(l, mat) == l[CHOOSE i \in 1..Len(l) :
                         l[i].maturity = mat /\ \A j \in 1..i - 1 : l[j].maturity # mat]

\* C8: the quotes are processed by ascending maturity, those of equal
\* maturity in the order of the list given; the first of them in that list
\* is the one bootstrapped.
CalibrationOrderStable ==
    /\ pc # "setup" => _quotes = StableSort(marketData, Len(marketData))
    /\ \A k \in Bootstrapped : steps[k].rate = FirstWith(marketData, steps[k].mat).rate

\* C9: an iteration keeps every pillar of the curve with its rate; one that
\* finds the maturity of its quote in the curve changes nothing and computes
\* nothing; the returned curve holds every pillar of the argument.
SkipGuardStep ==
    pc = "loop" =>
        /\ Pillars(curve) \subseteq Pillars(curve')
        /\ (idx <= Len(_quotes) /\ _quotes[idx].maturity \in Keys(curve))
           => (curve' = curve /\ Len(steps') = Len(steps) + 1 /\ steps'[Len(steps')].skipped)
        /\ pc' = "ready" => Pillars(initialCurve) \subseteq Pillars(runs'[Len(runs')].result)

SkipGuardFrame == [][SkipGuardStep]_vars

SkipGuardWitness ==
    /\ pc = "ready"
    /\ \E k \in 1..Len(steps) : steps[k].skipped /\ steps[k].mat \in Keys(initialCurve)
    /\ \E j, k \in 1..Len(steps) :
           j < k /\ ~steps[j].skipped /\ steps[k].skipped /\ steps[j].mat = steps[k].mat

\* C10: for a maturity that calibrate bootstrapped and the pricer repriced,
\* both summed over the same coupon dates and used the same last period.
SharedBoundaries ==
    \A k \in Bootstrapped : \A i \in 1..Len(npv) :
        steps[k].mat = npv[i].mat =>
            (steps[k].dates = npv[i].dates /\ steps[k].tau_n = npv[i].last_tau)

SharedBoundariesWitness ==
    /\ pc = "verified"
    /\ \E k \in Bootstrapped : \E i \in 1..Len(npv) :
           /\ steps[k].mat = npv[i].mat
           /\ ~OnGrid(steps[k].mat)
           /\ Len(npv[i].dates) = 2
    /\ \E k \in Bootstrapped : \E i \in 1..Len(npv) :
           /\ steps[k].mat = npv[i].mat
           /\ OnGrid(steps[k].mat)
           /\ Len(npv[i].dates) = 3

====
